---- MODULE Spec2Model ----
(***************************************************************************)
(* State machine of main.js: the vehicle skeleton, the key handlers, the   *)
(* camera toggle, the model loader callbacks and the render loop with its  *)
(* physics step.                                                           *)
(*                                                                         *)
(* Numbers are fixed point: lengths in mm, time in ms, velocities in        *)
(* 10^-5 m/s, forces in 10^-5 N, angles in micro-radians, direction        *)
(* vectors and trigonometric values in thousandths.  A quaternion of the   *)
(* vehicle mesh is only ever a rotation about the Y axis                   *)
(* (setFromAxisAngle((0,1,0)), pre-multiplied, or the identity), so it is  *)
(* kept as its yaw angle.                                                  *)
(***************************************************************************)
EXTENDS Integers, Sequences, FiniteSets, TLC

VARIABLES
    mesh,           \* vehicle.mesh: NULL or <<[kind, position, quaternion]>>
    position,       \* vehicle.position
    velocity,       \* vehicle.velocity
    steerAngle,     \* vehicle.steerAngle
    keys,           \* keys = { forward, back, left, right, handbrake }
    chaseCam,       \* let chaseCam
    controlsTarget, \* controls.target
    last,           \* let last (frame timestamp)
    loaderPending,  \* loader.load has not called back yet
    loadingShown,   \* $loading.style.display is not 'none'
    errorShown,     \* showError has displayed $error
    throttle,       \* const throttle of the latest physics step (tenths)
    stepDt,         \* dt computed by the latest physicsStep call
    frameNow,       \* const now of the latest animate call
    cameraDt,       \* dt passed to updateCamera by the latest animate call
    calls           \* calls made by the latest animate call, in order

vars == <<mesh, position, velocity, steerAngle, keys, chaseCam, controlsTarget,
          last, loaderPending, loadingShown, errorShown, throttle, stepDt,
          frameNow, cameraDt, calls>>

(* ---------------------------- bounds ---------------------------------- *)

\* performance.now() is modelled up to this horizon (ms since `last` was
\* initialised).
MaxNow == 80

\* Real time between the previous frame's timestamp and animate's clock read.
FrameGaps == {40, 70}

\* Advance of the clock between animate's read and physicsStep's read.
ClockJitter == {0, 1}

(* --------------------------- arithmetic ------------------------------- *)

Abs(a) == IF a < 0 THEN -a ELSE a

Sign(a) == IF a > 0 THEN 1 ELSE IF a < 0 THEN -1 ELSE 0

Min(a, b) == IF a < b THEN a ELSE b

\* Division rounding toward zero.
Quot(a, b) == IF a >= 0 THEN a \div b ELSE -((-a) \div b)

RECURSIVE ISqrtIter(_, _)
ISqrtIter(n, x) ==
    LET y == (x + n \div x) \div 2
    IN  IF y >= x THEN x ELSE ISqrtIter(n, y)

ISqrt(n) == IF n <= 0 THEN 0 ELSE ISqrtIter(n, n)

\* Math.PI in milli-radians
Pi == 3142

\* sine of a (milli-radians) in thousandths: 16x(pi-x) / (5pi^2 - 4x(pi-x))
\* on [0, pi], odd and 2pi-periodic elsewhere.
SinMilli(a) ==
    LET r == a % (2 * Pi)
        x == IF r <= Pi THEN r ELSE r - Pi
        p == x * (Pi - x)
        s == (16 * p) \div ((5 * Pi * Pi - 4 * p) \div 1000)
    IN  IF r <= Pi THEN s ELSE -s

CosMilli(a) == SinMilli(a + Pi \div 2)

\* Math.tan of s (micro-radians) in thousandths: s + s^3/3 + 2 s^5/15
TanMilli(s) ==
    LET m  == Quot(s, 1000)
        m2 == Quot(m * m, 1000)
        m3 == Quot(m2 * m, 1000)
    IN  m + Quot(m3, 3) + Quot(2 * Quot(m3 * m2, 1000), 15)

\* a * b / c rounded toward zero, for b >= 0 and c > 0, without forming a * b
MulDiv(a, b, c) ==
    LET n == Abs(a)
    IN  Sign(a) * ((n \div c) * b + ((n % c) * b) \div c)

(* ---------------------------- vectors --------------------------------- *)

Vec(x, y, z) == <<x, y, z>>

VAdd(a, b) == <<a[1] + b[1], a[2] + b[2], a[3] + b[3]>>

\* multiplyScalar(num / den)
VScale(a, num, den) ==
    <<Quot(a[1] * num, den), Quot(a[2] * num, den), Quot(a[3] * num, den)>>

Dot(a, b) == a[1] * b[1] + a[2] * b[2] + a[3] * b[3]

MaxAbs(a) ==
    LET m == IF Abs(a[1]) > Abs(a[2]) THEN Abs(a[1]) ELSE Abs(a[2])
    IN  IF m > Abs(a[3]) THEN m ELSE Abs(a[3])

\* Vector3.length(); the components are squared in multiples of a unit that
\* keeps four significant digits
VLength(a) ==
    LET m    == MaxAbs(a)
        unit == IF m <= 20000 THEN 1
                ELSE IF m <= 200000 THEN 10
                ELSE IF m <= 2000000 THEN 100
                ELSE IF m <= 20000000 THEN 1000
                ELSE 10000
    IN  unit * ISqrt(Quot(a[1], unit) * Quot(a[1], unit)
                   + Quot(a[2], unit) * Quot(a[2], unit)
                   + Quot(a[3], unit) * Quot(a[3], unit))

\* Vector3.normalize() of a direction vector in thousandths
Normalize(a) ==
    LET len == VLength(a)
    IN  IF len = 0 THEN a ELSE VScale(a, 1000, len)

\* new Vector3(0, 0, 1).applyQuaternion(q), q a rotation by yaw about Y
ApplyQuaternionToZ(q) == Vec(SinMilli(q \div 1000), 0, CosMilli(q \div 1000))

\* multiplyQuaternions(yawQuat, q): both rotate about Y, a quaternion and its
\* negative are told apart by keeping the angle modulo 4 pi.
MultiplyYaw(deltaYaw, q) == (q + deltaYaw) % (4 * Pi * 1000)

(* ------------------------ vehicle skeleton ---------------------------- *)

NULL == <<>>

Zero == Vec(0, 0, 0)

StartPosition == Vec(0, 20000, 0)

IdentityQuat == 0

mass == 1800

wheelBase == 2700

MaxSteer == 523599

dragCoef == 4257

rollingResistance == 12

maxEngine == 8000

suspensionK == 80

Gravity == 9810

RideHeight == 800

MaxDt == 50

NoGround == -1000000

TerrainHalfSize == 1024000

TerrainAmplitude == 8

NewMesh(kind) ==
    <<[kind |-> kind, position |-> Zero, quaternion |-> IdentityQuat]>>

MeshAt(m, pos) == <<[m[1] EXCEPT !.position = pos]>>

Flags == [forward : BOOLEAN, back : BOOLEAN, left : BOOLEAN, right : BOOLEAN,
          handbrake : BOOLEAN]

Init ==
    /\ mesh = NULL
    /\ position = StartPosition
    /\ velocity = Zero
    /\ steerAngle = 0
    /\ keys = [forward |-> FALSE, back |-> FALSE, left |-> FALSE,
               right |-> FALSE, handbrake |-> FALSE]
    /\ chaseCam = TRUE
    /\ controlsTarget = Zero
    /\ last = 0
    /\ loaderPending = TRUE
    /\ loadingShown = TRUE
    /\ errorShown = FALSE
    /\ throttle = 0
    /\ stepDt = 0
    /\ frameNow = 0
    /\ cameraDt = 0
    /\ calls = <<>>

(* ------------------------------ input --------------------------------- *)

\* e.key.toLowerCase() of the letter keys, e.code of the space bar
KeyNames == {"w", "s", "a", "d", "Space", "c", "r"}

FlagKeys == {"w", "s", "a", "d", "Space"}

SetFlag(ks, k, v) ==
    IF k = "w" THEN [ks EXCEPT !.forward = v]
    ELSE IF k = "s" THEN [ks EXCEPT !.back = v]
    ELSE IF k = "a" THEN [ks EXCEPT !.left = v]
    ELSE IF k = "d" THEN [ks EXCEPT !.right = v]
    ELSE IF k = "Space" THEN [ks EXCEPT !.handbrake = v]
    ELSE ks

FlagOf(ks, k) ==
    IF k = "w" THEN ks.forward
    ELSE IF k = "s" THEN ks.back
    ELSE IF k = "a" THEN ks.left
    ELSE IF k = "d" THEN ks.right
    ELSE ks.handbrake

\* the flag assignments of the keydown listener
KeyDownFlags(ks, k) == SetFlag(ks, k, TRUE)

\* a keyup listener whose 's' line clears forward instead of back
KeyUpFlagsCopyPaste(ks, k) ==
    IF k = "s" THEN [ks EXCEPT !.forward = FALSE] ELSE SetFlag(ks, k, FALSE)

\* the flag assignments of the keyup listener
KeyUpFlags(ks, k) == SetFlag(ks, k, FALSE)

(* ------------------------------ camera -------------------------------- *)

\* An exception that leaves a listener reaches the window 'error' listener:
\* showError('Uncaught error: ...') and the loading indicator is hidden.
UncaughtError ==
    /\ errorShown' = TRUE
    /\ loadingShown' = FALSE

\* chaseCam = !chaseCam; if (!chaseCam) controls.target.copy(vehicle.mesh.position)
\* Reading .position of a null vehicle.mesh throws a TypeError after chaseCam
\* has been assigned.
ToggleCamera ==
    /\ chaseCam' = ~chaseCam
    /\ IF ~chaseCam
       THEN UNCHANGED <<controlsTarget, errorShown, loadingShown>>
       ELSE IF mesh = NULL
            THEN UNCHANGED controlsTarget /\ UncaughtError
            ELSE /\ controlsTarget' = mesh[1].position
                 /\ UNCHANGED <<errorShown, loadingShown>>

(* ------------------------------ reset --------------------------------- *)

\* vehicle.mesh after resetVehicle(): untouched when there is none
ResetMesh(m) ==
    IF m = NULL
    THEN m
    ELSE <<[m[1] EXCEPT !.position = Vec(0, 20000, 0),
                        !.quaternion = IdentityQuat]>>

\* a reset that forgets velocity.set(0,0,0)
ResetVelocityKept(m, v) == v

\* vehicle.velocity after resetVehicle()
ResetVelocity(m, v) == IF m = NULL THEN v ELSE Zero

ResetVehicle ==
    /\ mesh' = ResetMesh(mesh)
    /\ velocity' = ResetVelocity(mesh, velocity)

(* -------------------------- key listeners ----------------------------- *)

\* a keydown listener whose handbrake line also stops the vehicle
KeyDownHandbrakeStops(k) ==
    /\ k \in KeyNames
    /\ keys' = KeyDownFlags(keys, k)
    /\ IF k = "c"
       THEN ToggleCamera /\ UNCHANGED <<mesh, velocity>>
       ELSE IF k = "r"
            THEN ResetVehicle
                 /\ UNCHANGED <<chaseCam, controlsTarget, errorShown, loadingShown>>
            ELSE /\ velocity' = IF k = "Space" THEN Zero ELSE velocity
                 /\ UNCHANGED <<mesh, chaseCam, controlsTarget, errorShown,
                                loadingShown>>
    /\ UNCHANGED <<position, steerAngle, last, loaderPending, throttle, stepDt,
                   frameNow, cameraDt, calls>>

KeyDown(k) ==
    /\ k \in KeyNames
    /\ keys' = KeyDownFlags(keys, k)
    /\ IF k = "c"
       THEN ToggleCamera /\ UNCHANGED <<mesh, velocity>>
       ELSE IF k = "r"
            THEN ResetVehicle
                 /\ UNCHANGED <<chaseCam, controlsTarget, errorShown, loadingShown>>
            ELSE UNCHANGED <<mesh, velocity, chaseCam, controlsTarget, errorShown,
                             loadingShown>>
    /\ UNCHANGED <<position, steerAngle, last, loaderPending, throttle, stepDt,
                   frameNow, cameraDt, calls>>

KeyUp(k) ==
    /\ k \in KeyNames
    /\ keys' = KeyUpFlags(keys, k)
    /\ UNCHANGED <<mesh, position, velocity, steerAngle, chaseCam,
                   controlsTarget, last, loaderPending, loadingShown, errorShown,
                   throttle, stepDt, frameNow, cameraDt, calls>>

(* ------------------------------ loader -------------------------------- *)

LoadOutcomes == {"loaded", "placingFailed", "loadFailed"}

\* a fallback that builds no placeholder
FallbackMeshMissing == NULL

\* the mesh fallback() installs: makePlaceholderCar() moved to vehicle.position
FallbackMesh == MeshAt(NewMesh("placeholder"), position)

Fallback ==
    /\ mesh' = FallbackMesh
    /\ loadingShown' = FALSE

\* The three ways loader.load ends: onLoad runs through, onLoad throws inside
\* its try block (showError, fallback), or onError (showError, fallback).
LoaderCallback(outcome) ==
    /\ loaderPending
    /\ loaderPending' = FALSE
    /\ IF outcome = "loaded"
       THEN /\ mesh' = MeshAt(NewMesh("gltf"), position)
            /\ loadingShown' = FALSE
            /\ UNCHANGED errorShown
       ELSE IF outcome = "placingFailed"
            THEN /\ errorShown' = TRUE
                 /\ Fallback
            ELSE /\ errorShown' = TRUE
                 /\ Fallback
    /\ UNCHANGED <<position, velocity, steerAngle, keys, chaseCam,
                   controlsTarget, last, throttle, stepDt, frameNow, cameraDt,
                   calls>>

(* --------------------------- ground check ----------------------------- *)

\* Height of the terrain surface under (x, z): the plane of side 2048 m whose
\* vertices are raised to (sin(0.01 x) + cos(0.007 z)) * 8.
TerrainHeight(x, z) ==
    TerrainAmplitude * (SinMilli(x \div 100) + CosMilli((7 * z) \div 1000))

\* the downward ray hits the ground mesh, or there is nothing below
GetGroundHeightAt(x, z) ==
    IF Abs(x) <= TerrainHalfSize /\ Abs(z) <= TerrainHalfSize
    THEN TerrainHeight(x, z)
    ELSE NoGround

(* --------------------------- physics step ----------------------------- *)

\* let dt = (now - last) / 1000; if (dt > 0.05) dt = 0.05;
ClampDt(elapsed) == IF elapsed > MaxDt THEN MaxDt ELSE elapsed

\* a throttle that gives back priority over forward
ThrottleBackFirst(ks) == IF ks.back THEN -6 ELSE IF ks.forward THEN 10 ELSE 0

\* keys.forward ? 1 : (keys.back ? -0.6 : 0), in tenths
Throttle(ks) == IF ks.forward THEN 10 ELSE IF ks.back THEN -6 ELSE 0

SteerInput(ks) == (IF ks.left THEN 1 ELSE 0) - (IF ks.right THEN 1 ELSE 0)

TargetSteer(ks) == SteerInput(ks) * MaxSteer

\* a lerp whose factor is ten times too large
LerpTenfold(x, y, t) == x + Quot((y - x) * t, 100)

\* THREE.MathUtils.lerp(x, y, t) = (1 - t) * x + t * y, t in thousandths
Lerp(x, y, t) == Quot((1000 - t) * x, 1000) + Quot(t * y, 1000)

\* steerAngle after lerp(steerAngle, targetSteer, 5 * dt)
SteerStep(steer, ks, dt) == Lerp(steer, TargetSteer(ks), 5 * dt)

\* forward.clone().multiplyScalar(throttle * maxEngine)
EngineForce(q, thr) ==
    VScale(Normalize(ApplyQuaternionToZ(q)), thr * maxEngine * 10, 1)

\* velocity.length() in mm/s
SpeedMm(v) == VLength(v) \div 100

\* velocity.clone().multiplyScalar(-dragCoef * speed)
Drag(v) ==
    LET c == Quot(dragCoef * SpeedMm(v), 10000)
    IN  Vec(-MulDiv(v[1], c, 1000), -MulDiv(v[2], c, 1000),
            -MulDiv(v[3], c, 1000))

\* velocity.clone().multiplyScalar(-rollingResistance)
Rolling(v) == VScale(v, -rollingResistance, 1)

\* net = engineF + drag + rolling
NetForce(v, q, thr) == VAdd(VAdd(EngineForce(q, thr), Drag(v)), Rolling(v))

\* an integration step with velocity.sub in place of velocity.add
AccelerateSubtracts(v, net, dt) ==
    VAdd(v, VScale(VScale(net, 1, mass), -dt, 1000))

\* velocity after velocity.add(accel.multiplyScalar(dt)), accel = net / mass
Accelerate(v, net, dt) == VAdd(v, VScale(VScale(net, 1, mass), dt, 1000))

\* deltaYaw = angularVel * dt, in micro-radians
DeltaYaw(v, steer, dt) ==
    LET angularVel ==
            IF v[3] # 0
            THEN Quot(SpeedMm(v) * 1000, wheelBase) * TanMilli(steer)
            ELSE 0
    IN  Quot(angularVel * dt, 1000)

\* position after addScaledVector(localForward, |v| dt sign(v . localForward))
Advance(pos, q, v, dt) ==
    LET localForward == ApplyQuaternionToZ(q)
        s == Quot(SpeedMm(v) * dt, 1000) * Sign(Dot(v, localForward))
    IN  VAdd(pos, VScale(localForward, s, 1000))

\* velocity.y after velocity.y += diff * suspensionK * dt - 9.81 * dt
Suspend(vy, pos, dt) ==
    LET groundY  == GetGroundHeightAt(pos[1], pos[3])
        desiredY == groundY + RideHeight
        diff     == desiredY - pos[2]
    IN  vy + Quot(diff * suspensionK * dt, 10) - Quot(Gravity * dt, 10)

\* a physics step that smooths the steering before the mesh check
SkipStepSteers ==
    /\ steerAngle' = SteerStep(steerAngle, keys, ClampDt(last' - last))
    /\ UNCHANGED <<velocity, mesh, throttle>>

\* if (!vehicle.mesh) return dt;
SkipStep == UNCHANGED <<steerAngle, velocity, mesh, throttle>>

\* function physicsStep(), with performance.now() returning `now`
PhysicsStep(now) ==
    LET dt == ClampDt(now - last)
    IN  /\ last' = now
        /\ stepDt' = dt
        /\ IF mesh = NULL
           THEN SkipStep
           ELSE LET thr   == Throttle(keys)
                    steer == SteerStep(steerAngle, keys, dt)
                    net   == NetForce(velocity, mesh[1].quaternion, thr)
                    v1    == Accelerate(velocity, net, dt)
                    q1    == MultiplyYaw(DeltaYaw(v1, steer, dt),
                                         mesh[1].quaternion)
                    p1    == Advance(mesh[1].position, q1, v1, dt)
                    vy    == Suspend(v1[2], p1, dt)
                    p2    == Vec(p1[1], p1[2] + Quot(vy * dt, 100000), p1[3])
                IN  /\ throttle' = thr
                    /\ steerAngle' = steer
                    /\ velocity' = Vec(v1[1], vy, v1[3])
                    /\ mesh' = <<[mesh[1] EXCEPT !.position = p2,
                                                 !.quaternion = q1]>>

(* ---------------------------- render loop ----------------------------- *)

\* a frame step that forgets Math.min
FrameDtUnclamped(now) == now - last

\* const dt = Math.min((now - last) / 1000, 0.05)
FrameDt(now) == Min(now - last, MaxDt)

\* function animate(): one display frame.  The clock is read once here and
\* once more inside physicsStep.
Animate ==
    \E gap \in FrameGaps, jitter \in ClockJitter :
        LET now == last + gap
        IN  /\ now + jitter <= MaxNow
            /\ frameNow' = now
            /\ cameraDt' = FrameDt(now)
            /\ PhysicsStep(now + jitter)
            /\ calls' = <<"physicsStep", "updateCamera", "render">>
            /\ UNCHANGED <<position, keys, chaseCam, controlsTarget,
                           loaderPending, loadingShown, errorShown>>

Next ==
    \/ \E k \in KeyNames : KeyDown(k)
    \/ \E k \in KeyNames : KeyUp(k)
    \/ \E outcome \in LoadOutcomes : LoaderCallback(outcome)
    \/ Animate

Spec == Init /\ [][Next]_vars

\* The loader delivers exactly one of its callbacks.
FairSpec == Spec /\ WF_vars(\E outcome \in LoadOutcomes : LoaderCallback(outcome))

(* ============================== claims ================================ *)

\* where the vehicle is: its mesh when attached, else vehicle.position
PositionOf(m) == IF m = NULL THEN position ELSE m[1].position

\* the orientation of the vehicle: that of its mesh, none without a mesh
OrientationsOf(m) == {m[i].quaternion : i \in DOMAIN m}

\* a step of the render loop: only physicsStep assigns `last`
Tick == last' # last

ResetAlwaysSetsPose ==
    /\ PositionOf(ResetMesh(mesh)) = Vec(0, 20000, 0)
    /\ ResetVelocity(mesh, velocity) = Zero
    /\ OrientationsOf(ResetMesh(mesh)) = {IdentityQuat}

\* C2 as amended: with a mesh attached a reset puts the mesh at (0,20,0), the
\* velocity at zero and the orientation at the identity; without a mesh it
\* changes nothing, the position and velocity still being (0,20,0) and zero
\* and no orientation existing.
ResetSetsPoseOfAttachedMesh ==
    /\ PositionOf(ResetMesh(mesh)) = Vec(0, 20000, 0)
    /\ ResetVelocity(mesh, velocity) = Zero
    /\ mesh # NULL => OrientationsOf(ResetMesh(mesh)) = {IdentityQuat}
    /\ mesh = NULL => /\ ResetMesh(mesh) = mesh
                      /\ ResetVelocity(mesh, velocity) = velocity
                      /\ OrientationsOf(ResetMesh(mesh)) = {}

\* the vehicle has been reset after a frame that steered it
ResetAfterDriving ==
    /\ mesh # NULL
    /\ steerAngle # 0
    /\ mesh[1].position = Vec(0, 20000, 0)
    /\ mesh[1].quaternion = IdentityQuat
    /\ velocity = Zero

\* C3: a physics step taken while vehicle.mesh is null changes only the
\* frame bookkeeping: velocity, steering angle, position and mesh stay as
\* they are and no error is shown.
NoMeshStepIsNoOp ==
    [][(Tick /\ mesh = NULL) =>
         UNCHANGED <<velocity, steerAngle, position, mesh, errorShown,
                     loadingShown>>]_vars

\* a frame has run with steering and throttle keys down and no mesh
SteppedWithoutMesh == mesh = NULL /\ last > 0 /\ keys.left /\ keys.forward

\* C4 as stated: no key event changes the vehicle, the camera mode or the
\* orbit target.
KeyEventsOnlySetFlags ==
    [][(\E k \in KeyNames : KeyDown(k) \/ KeyUp(k)) =>
         UNCHANGED <<mesh, position, velocity, steerAngle, chaseCam,
                     controlsTarget>>]_vars

\* C4 as amended: the press and release of forward, back, left, right and
\* handbrake change nothing but the flags; the camera-toggle and reset
\* presses act at once in the listener.
FlagKeyEventsOnlySetFlags ==
    [][(\E k \in FlagKeys : KeyDown(k) \/ KeyUp(k)) =>
         UNCHANGED <<mesh, position, velocity, steerAngle, chaseCam,
                     controlsTarget, last>>]_vars

\* flag keys are down while the attached vehicle is moving
FlagsSetWhileMoving ==
    mesh # NULL /\ velocity # Zero /\ keys.handbrake /\ keys.forward

\* C5: a toggle out of chase mode sets the orbit target to the vehicle
\* position and shows no error; a toggle back into chase mode leaves the
\* target alone.
ToggleSnapsOrbitTarget ==
    [][KeyDown("c") =>
         IF chaseCam
         THEN controlsTarget' = PositionOf(mesh) /\ errorShown' = errorShown
         ELSE controlsTarget' = controlsTarget]_vars

\* a physics step with no throttle input and a moving vehicle
CoastingTick ==
    Tick /\ mesh # NULL /\ ~keys.forward /\ ~keys.back /\ velocity # Zero

FrameTiming ==
    [][Tick =>
         /\ stepDt' = Min(last' - last, 50)
         /\ cameraDt' = Min(frameNow' - last, 50)
         /\ 0 <= stepDt' /\ stepDt' <= 50
         /\ 0 <= cameraDt' /\ cameraDt' <= 50
         /\ last <= frameNow' /\ frameNow' <= last'
         /\ calls' = <<"physicsStep", "updateCamera", "render">>]_vars

\* a frame arrived more than 50 ms after the previous one
SlowFrameClamped == last >= 70 /\ stepDt = 50 /\ cameraDt = 50

\* C8: the engine input of a step is +1 with forward set, -0.6 with back
\* set alone, 0 with neither, whatever left, right and handbrake are.
EngineInputMapping ==
    [][(Tick /\ mesh # NULL) =>
         /\ keys.forward => throttle' = 10
         /\ (keys.back /\ ~keys.forward) => throttle' = -6
         /\ (~keys.back /\ ~keys.forward) => throttle' = 0
         /\ \A ks \in Flags :
                (ks.forward = keys.forward /\ ks.back = keys.back)
                    => Throttle(ks) = throttle']_vars

\* a step ran with forward and back both down and drove forward
BothThrottleKeysStepped ==
    /\ mesh # NULL
    /\ keys.forward /\ keys.back /\ keys.handbrake
    /\ throttle = 10
    /\ velocity[3] > 0

\* C9 as stated: a press followed by a release of the same key leaves the
\* flags as they were.
PressReleaseLeavesFlags ==
    \A k \in FlagKeys : KeyUpFlags(KeyDownFlags(keys, k), k) = keys

\* C9 as amended: a press sets and a release clears the key's own flag and
\* no other, so after press and release the flag is clear whatever it was;
\* the flags are as they were exactly when the flag was clear before.
LastWriteWins ==
    \A k \in FlagKeys :
        LET down == KeyDownFlags(keys, k)
            up   == KeyUpFlags(down, k)
        IN  /\ FlagOf(down, k)
            /\ ~FlagOf(up, k)
            /\ ~FlagOf(KeyUpFlags(keys, k), k)
            /\ \A j \in FlagKeys \ {k} :
                   /\ FlagOf(down, j) = FlagOf(keys, j)
                   /\ FlagOf(up, j) = FlagOf(keys, j)
                   /\ FlagOf(KeyUpFlags(keys, j), k) = FlagOf(keys, k)
            /\ (up = keys) <=> ~FlagOf(keys, k)

\* since the latest step forward was released and back pressed
FlagsRewrittenSinceStep ==
    mesh # NULL /\ throttle = 10 /\ ~keys.forward /\ keys.back

\* C10: the loader callback leaves a mesh at (0,20,0) and hides the loading
\* indicator, an attached mesh stays attached, and with the callback
\* delivered the mesh is eventually attached for good.
LoaderAlwaysAttaches ==
    /\ [][(loaderPending /\ ~loaderPending') =>
            /\ mesh' # NULL
            /\ mesh'[1].position = Vec(0, 20000, 0)
            /\ ~loadingShown']_vars
    /\ [][mesh # NULL => mesh' # NULL]_vars
    /\ <>[](mesh # NULL)

\* the load failed and the placeholder car stands in
PlaceholderAttached ==
    /\ mesh # NULL
    /\ mesh[1].kind = "placeholder"
    /\ errorShown
    /\ ~loadingShown

====
